---- MODULE Spec2Model ----
(***************************************************************************)
(* Model of src/main.rs: the Animal and Swimmer traits, the Dog, Cat, Duck *)
(* and Horse types (Horse embedding an AnimalBase), the helpers            *)
(* introduce_animal and make_sound, and the build and run of main.         *)
(*                                                                         *)
(* A String is a sequence of characters; a character is a one-letter       *)
(* string, except SharpS, which stands for U+00DF (its upper case is two   *)
(* characters).  A struct is a record of its fields plus a "type" field    *)
(* holding the concrete type the compiler knows the value by.              *)
(***************************************************************************)
EXTENDS Integers, Sequences, FiniteSets, TLC

VARIABLES
    self,       \* the value the calls act on (NoValue before construction)
    call,       \* the latest call: function, argument, receiver before, result
    stdout,     \* the lines the latest call printed
    at_new,     \* name(), speak(), describe() as returned right after construction
    cargo       \* the build and run of the program: phase, exit status, output

vars == <<self, call, stdout, at_new, cargo>>

-----------------------------------------------------------------------------
(* Characters and strings *)

SharpS == "U+00DF"

LowerCase == <<"a","b","c","d","e","f","g","h","i","j","k","l","m",
               "n","o","p","q","r","s","t","u","v","w","x","y","z">>
UpperCase == <<"A","B","C","D","E","F","G","H","I","J","K","L","M",
               "N","O","P","Q","R","S","T","U","V","W","X","Y","Z">>
Digits    == <<"0","1","2","3","4","5","6","7","8","9">>

\* char::to_uppercase: one character to the characters of its upper case
CharToUpper(c) ==
    IF c = SharpS THEN <<"S","S">>
    ELSE IF \E i \in 1..Len(LowerCase) : LowerCase[i] = c
         THEN <<UpperCase[CHOOSE i \in 1..Len(LowerCase) : LowerCase[i] = c]>>
         ELSE <<c>>

\* str::to_uppercase: the upper case of each character, in order
RECURSIVE to_uppercase(_)
to_uppercase(s) ==
    IF s = <<>> THEN <<>>
    ELSE CharToUpper(Head(s)) \o to_uppercase(Tail(s))

\* Display for u8 and u32: decimal digits, no sign, no padding
RECURSIVE DisplayInt(_)
DisplayInt(n) ==
    IF n < 10 THEN <<Digits[n + 1]>>
    ELSE DisplayInt(n \div 10) \o <<Digits[(n % 10) + 1]>>

\* format!: the literal pieces of the format string with the i-th argument
\* in place of the i-th "{}" (Len(pieces) = Len(args) + 1)
RECURSIVE Format(_, _)
Format(pieces, args) ==
    IF args = <<>> THEN Head(pieces)
    ELSE Head(pieces) \o Head(args) \o Format(Tail(pieces), Tail(args))

-----------------------------------------------------------------------------
(* String literals of the source *)

LitSays      == <<" ","s","a","y","s",":"," ">>
LitSwimming  == <<"S","w","i","m","m","i","n","g",".",".",".">>
LitWoof      == <<"W","o","o","f","!"," ","I","'","m"," ","a"," ">>
LitPurr      == <<"M","e","o","w","~"," ","(","c","o","m","f","o","r","t","a","b","l","e",
                  " ","p","u","r","r",")">>
LitStreet    == <<"M","E","O","W","!"," ","(","s","t","r","e","e","t"," ","c","a","t"," ",
                  "a","t","t","i","t","u","d","e",")">>
LitQuack     == <<"Q","u","a","c","k"," ","q","u","a","c","k","!">>
LitPaddles   == <<" ","p","a","d","d","l","e","s"," ","g","r","a","c","e","f","u","l","l","y",
                  " ","a","c","r","o","s","s"," ","t","h","e"," ","p","o","n","d">>
LitWalksOn   == <<" ","w","a","l","k","s"," ","o","n"," ">>
LitLegs      == <<" ","l","e","g","s">>
LitGallopsAt == <<" ","g","a","l","l","o","p","s"," ","a","t"," ">>
LitMph       == <<" ","m","p","h","!">>
LitNeigh     == <<"N","e","i","g","h","!">>
LitIndent    == <<" "," ">>
LitSound     == <<" "," ","S","o","u","n","d",":"," ">>

-----------------------------------------------------------------------------
(* Values returned by a call *)

Unit       == [kind |-> "unit"]
RetNum(n)   == [kind |-> "number", val |-> n]
RetStr(s)  == [kind |-> "String", val |-> s]

NoValue    == [type |-> "none"]

-----------------------------------------------------------------------------
(* Dog *)

U8Max      == 255
MaxDogAge  == 25

Dog_new(name, age, breed) ==
    [type |-> "Dog", name |-> name, age |-> age, breed |-> breed]

Dog_get_age(this) == this.age

\* variants of set_age: the bound taken as strict; no check; the breed lost
Dog_set_age_Strict(this, age) ==
    [self |-> IF age < MaxDogAge THEN [this EXCEPT !.age = age] ELSE this,
     ret  |-> Unit]

Dog_set_age_Unchecked(this, age) ==
    [self |-> [this EXCEPT !.age = age], ret |-> Unit]

Dog_set_age_Rebuilds(this, age) ==
    [self |-> IF age <= MaxDogAge THEN Dog_new(this.name, age, <<>>) ELSE this,
     ret  |-> Unit]

\* &mut self: the receiver after the call, and the value returned
Dog_set_age(this, age) ==
    [self |-> IF age <= MaxDogAge THEN [this EXCEPT !.age = age] ELSE this,
     ret  |-> Unit]

Dog_format_breed(this) == to_uppercase(this.breed)

Dog_speak(this) == Format(<<LitWoof, <<>>>>, <<Dog_format_breed(this)>>)

Dog_name(this) == this.name

(* Cat *)

Cat_new(name, indoor) == [type |-> "Cat", name |-> name, indoor |-> indoor]

\* variant of Cat::speak: the branches exchanged
Cat_speak_Exchanged(this) == IF this.indoor THEN LitStreet ELSE LitPurr

Cat_speak(this) == IF this.indoor THEN LitPurr ELSE LitStreet

Cat_name(this) == this.name

(* Duck *)

Duck_new(name) == [type |-> "Duck", name |-> name]

Duck_speak(this) == LitQuack

Duck_name(this) == this.name

Duck_swim(this) == Format(<<<<>>, LitPaddles>>, <<this.name>>)

(* AnimalBase and Horse *)

HorseLegs == 4

AnimalBase_new(name, legs) == [name |-> name, legs |-> legs]

AnimalBase_walk(this) ==
    Format(<<<<>>, LitWalksOn, LitLegs>>, <<this.name, DisplayInt(this.legs)>>)

\* variant of Horse::new: the base built with two legs
Horse_new_TwoLegs(name, speed_mph) ==
    [type |-> "Horse", base |-> AnimalBase_new(name, 2), speed_mph |-> speed_mph]

Horse_new(name, speed_mph) ==
    [type |-> "Horse", base |-> AnimalBase_new(name, HorseLegs), speed_mph |-> speed_mph]

Horse_walk(this) == AnimalBase_walk(this.base)

Horse_gallop(this) ==
    Format(<<<<>>, LitGallopsAt, LitMph>>, <<this.base.name, DisplayInt(this.speed_mph)>>)

Horse_speak(this) == LitNeigh

Horse_name(this) == this.base.name

-----------------------------------------------------------------------------
(* Traits.  An impl block gives, for each method of the trait, the function *)
(* that implements it for the type: the type's own, or the trait's default. *)

ImplAnimal ==
    [Dog   |-> [speak |-> "Dog::speak",   name |-> "Dog::name",   describe |-> "Animal::describe"],
     Cat   |-> [speak |-> "Cat::speak",   name |-> "Cat::name",   describe |-> "Animal::describe"],
     Duck  |-> [speak |-> "Duck::speak",  name |-> "Duck::name",  describe |-> "Animal::describe"],
     Horse |-> [speak |-> "Horse::speak", name |-> "Horse::name", describe |-> "Animal::describe"]]

\* variant of impl Swimmer for Duck: an empty impl, the default kept
ImplSwimmer_Empty ==
    [Duck  |-> [swim |-> "Swimmer::swim"]]

ImplSwimmer ==
    [Duck  |-> [swim |-> "Duck::swim"]]

AnimalTypes  == DOMAIN ImplAnimal
SwimmerTypes == DOMAIN ImplSwimmer

InvokeSpeak(fn, this) ==
    CASE fn = "Dog::speak"   -> Dog_speak(this)
      [] fn = "Cat::speak"   -> Cat_speak(this)
      [] fn = "Duck::speak"  -> Duck_speak(this)
      [] fn = "Horse::speak" -> Horse_speak(this)

InvokeName(fn, this) ==
    CASE fn = "Dog::name"   -> Dog_name(this)
      [] fn = "Cat::name"   -> Cat_name(this)
      [] fn = "Duck::name"  -> Duck_name(this)
      [] fn = "Horse::name" -> Horse_name(this)

\* variant of describe: the two arguments exchanged
Animal_describe_Exchanged(T, this) ==
    Format(<<<<>>, LitSays, <<>>>>,
           <<InvokeSpeak(ImplAnimal[T].speak, this), InvokeName(ImplAnimal[T].name, this)>>)

\* the default method, compiled for the implementing type T
Animal_describe(T, this) ==
    Format(<<<<>>, LitSays, <<>>>>,
           <<InvokeName(ImplAnimal[T].name, this), InvokeSpeak(ImplAnimal[T].speak, this)>>)

InvokeDescribe(fn, T, this) ==
    CASE fn = "Animal::describe" -> Animal_describe(T, this)

Swimmer_swim(this) == LitSwimming

InvokeSwim(fn, this) ==
    CASE fn = "Duck::swim"    -> Duck_swim(this)
      [] fn = "Swimmer::swim" -> Swimmer_swim(this)

\* a call on a value of known type T: the function is picked when compiling
StaticSpeak(T, this)    == InvokeSpeak(ImplAnimal[T].speak, this)
StaticName(T, this)     == InvokeName(ImplAnimal[T].name, this)
StaticDescribe(T, this) == InvokeDescribe(ImplAnimal[T].describe, T, this)
StaticSwim(T, this)     == InvokeSwim(ImplSwimmer[T].swim, this)

\* &dyn Animal: a pointer to the value and the table of its type's impl (the
\* table's default-method slot is the default compiled for that type: "of")
AsDynAnimal(this) == [data |-> this, vtable |-> ImplAnimal[this.type], of |-> this.type]

\* a call through &dyn Animal: the function is read from the table when running
DynSpeak(animal)    == InvokeSpeak(animal.vtable.speak, animal.data)
DynName(animal)     == InvokeName(animal.vtable.name, animal.data)
DynDescribe(animal) == InvokeDescribe(animal.vtable.describe, animal.of, animal.data)

\* the lines each helper prints
introduce_animal(animal) ==
    <<Format(<<LitIndent, <<>>>>, <<DynDescribe(animal)>>)>>

\* variant of make_sound: describe() printed in place of speak()
make_sound_Describes(T, animal) ==
    <<Format(<<LitSound, <<>>>>, <<StaticDescribe(T, animal)>>)>>

make_sound(T, animal) ==
    <<Format(<<LitSound, <<>>>>, <<StaticSpeak(T, animal)>>)>>

-----------------------------------------------------------------------------
(* Arguments main calls with *)

DemoAge    == 100
DemoSpeed  == 35

NameRex      == <<"R","e","x">>
NameDonald   == <<"D","o","n","a","l","d">>
BreedGerman  == <<"G","e","r","m","a","n"," ","S","h","e","p","h","e","r","d">>

-----------------------------------------------------------------------------
(* The program: the statements of main, in order.  A println! is given by   *)
(* its line, what its first argument is ("literal": a string literal;       *)
(* "method call": the expression "=".repeat(60) or "-".repeat(40)), and the *)
(* expressions that fill its "{}".                                          *)

NameWhiskers == <<"W","h","i","s","k","e","r","s">>
NameShadow   == <<"S","h","a","d","o","w">>
NameSpirit   == <<"S","p","i","r","i","t">>

Println(line, first, args) == [op |-> "println", line |-> line, first |-> first, args |-> args]
Let(line, var, value)      == [op |-> "let", line |-> line, var |-> var, value |-> value]
On(method, var)            == [method |-> method, var |-> var]
Repeat(s, n)               == [method |-> "repeat", s |-> s, n |-> n]

MainBody ==
    << Println(218, "method call", <<>>),
       Println(219, "literal", <<>>),
       Println(220, "method call", <<>>),
       Let(223, "dog",        Dog_new(NameRex, 5, BreedGerman)),
       Let(224, "cat",        Cat_new(NameWhiskers, TRUE)),
       Let(225, "street_cat", Cat_new(NameShadow, FALSE)),
       Let(226, "duck",       Duck_new(NameDonald)),
       Let(227, "horse",      Horse_new(NameSpirit, DemoSpeed)),
       Println(230, "literal", <<>>),
       Println(231, "method call", <<>>),
       Println(233, "literal", <<On("get_age", "dog")>>),
       [op |-> "set_age", line |-> 234, var |-> "dog", age |-> 6],
       Println(235, "literal", <<On("get_age", "dog")>>),
       [op |-> "set_age", line |-> 236, var |-> "dog", age |-> DemoAge],
       Println(237, "literal", <<On("get_age", "dog")>>),
       Println(241, "literal", <<>>),
       Println(242, "method call", <<>>),
       Println(245, "literal", <<On("name", "dog"), On("speak", "dog")>>),
       Println(246, "literal", <<On("name", "cat"), On("speak", "cat")>>),
       Println(249, "literal", <<>>),
       Println(250, "method call", <<>>),
       [op |-> "vec", line |-> 253, vars |-> <<"dog", "cat", "street_cat", "duck", "horse">>],
       [op |-> "for", line |-> 255],
       Println(260, "literal", <<>>),
       Println(261, "method call", <<>>),
       [op |-> "make_sound", line |-> 263, var |-> "dog"],
       [op |-> "make_sound", line |-> 264, var |-> "cat"],
       [op |-> "make_sound", line |-> 265, var |-> "duck"],
       Println(268, "literal", <<>>),
       Println(269, "method call", <<>>),
       Println(271, "literal", <<On("walk", "horse")>>),
       Println(272, "literal", <<On("gallop", "horse")>>),
       Println(275, "literal", <<>>),
       Println(276, "method call", <<>>),
       Println(278, "literal", <<On("speak", "duck")>>),
       Println(279, "literal", <<On("swim", "duck")>>),
       Println(282, "literal", <<>>),
       Println(283, "method call", <<>>),
       Println(286, "literal", <<On("describe", "dog")>>),
       Println(287, "literal", <<On("describe", "horse")>>),
       Println(289, "literal", <<Repeat(<<"=">>, 60)>>),
       Println(290, "literal", <<>>),
       Println(291, "literal", <<Repeat(<<"=">>, 60)>>),
       Println(292, "literal", <<>>),
       Println(293, "literal", <<>>),
       Println(294, "literal", <<>>),
       Println(295, "literal", <<>>),
       Println(296, "literal", <<Repeat(<<"=">>, 60)>>) >>

\* the format macros outside main: line and first argument
OtherFormatMacros ==
    { [line |-> 22,  first |-> "literal"], [line |-> 74,  first |-> "literal"],
      [line |-> 140, first |-> "literal"], [line |-> 164, first |-> "literal"],
      [line |-> 189, first |-> "literal"], [line |-> 209, first |-> "literal"],
      [line |-> 214, first |-> "literal"] }

FormatMacros ==
    OtherFormatMacros \cup
    { [line |-> MainBody[i].line, first |-> MainBody[i].first] :
        i \in { j \in 1..Len(MainBody) : MainBody[j].op = "println" } }

\* the compiler takes a format macro only if its first argument is a string literal
CompileErrors == { m.line : m \in { f \in FormatMacros : f.first # "literal" } }

\* str::repeat
RECURSIVE repeat(_, _)
repeat(s, n) == IF n = 0 THEN <<>> ELSE s \o repeat(s, n - 1)

\* an argument of a println!, evaluated and shown with Display
Eval(e, locals) ==
    LET v == locals[e.var] IN
    CASE e.method = "repeat"   -> repeat(e.s, e.n)
      [] e.method = "get_age"  -> DisplayInt(Dog_get_age(v))
      [] e.method = "name"     -> StaticName(v.type, v)
      [] e.method = "speak"    -> StaticSpeak(v.type, v)
      [] e.method = "describe" -> StaticDescribe(v.type, v)
      [] e.method = "swim"     -> StaticSwim(v.type, v)
      [] e.method = "walk"     -> Horse_walk(v)
      [] e.method = "gallop"   -> Horse_gallop(v)

\* one statement of main: the locals, the vector and the output after it
Exec(st, stmt) ==
    CASE stmt.op = "println" ->
            [st EXCEPT !.stdout = Append(@,
                [line |-> stmt.line,
                 args |-> [i \in 1..Len(stmt.args) |-> Eval(stmt.args[i], st.locals)]])]
      [] stmt.op = "let" ->
            [st EXCEPT !.locals = [x \in DOMAIN @ \cup {stmt.var} |->
                                      IF x = stmt.var THEN stmt.value ELSE @[x]]]
      [] stmt.op = "set_age" ->
            [st EXCEPT !.locals[stmt.var] = Dog_set_age(@, stmt.age).self]
      [] stmt.op = "vec" ->
            [st EXCEPT !.animals = [i \in 1..Len(stmt.vars) |-> AsDynAnimal(st.locals[stmt.vars[i]])]]
      [] stmt.op = "for" ->
            [st EXCEPT !.stdout = @ \o
                [i \in 1..Len(st.animals) |->
                    [line |-> 209, args |-> <<DynDescribe(st.animals[i])>>]]]
      [] stmt.op = "make_sound" ->
            [st EXCEPT !.stdout = Append(@,
                [line |-> 214,
                 args |-> <<StaticSpeak(st.locals[stmt.var].type, st.locals[stmt.var])>>])]

RECURSIVE ExecFrom(_, _)
ExecFrom(st, i) ==
    IF i > Len(MainBody) THEN st ELSE ExecFrom(Exec(st, MainBody[i]), i + 1)

\* main: from no locals and no output to the end of its body
main == ExecFrom([locals |-> <<>>, animals |-> <<>>, stdout |-> <<>>], 1)

\* building and running the program: it runs only if the compiler takes it
cargo_run ==
    IF CompileErrors = {}
    THEN [phase |-> "exited", exit |-> "success", errors |-> {}, stdout |-> main.stdout]
    ELSE [phase |-> "exited", exit |-> "could not compile", errors |-> CompileErrors,
          stdout |-> <<>>]

-----------------------------------------------------------------------------
(* Arguments the calls are made with *)

AgeProbe   == 27
SpeedProbe == 12

BreedSpitz   == <<"g","r","o",SharpS,"s","p","i","t","z">>

Names  == {NameRex, NameDonald, <<>>}
Breeds == {BreedGerman, BreedSpitz}
Ages   == (0..AgeProbe) \cup {DemoAge, U8Max}
Speeds == (0..SpeedProbe) \cup {DemoSpeed}

-----------------------------------------------------------------------------
(* State *)

NotBuilt == [phase |-> "not started", exit |-> "none", errors |-> {}, stdout |-> <<>>]

Observe(T, this) ==
    [name     |-> StaticName(T, this),
     speak    |-> StaticSpeak(T, this),
     describe |-> StaticDescribe(T, this)]

Init ==
    /\ self   = NoValue
    /\ call   = [fn |-> "none", arg |-> Unit, before |-> NoValue, ret |-> Unit]
    /\ stdout = <<>>
    /\ at_new = [name |-> <<>>, speak |-> <<>>, describe |-> <<>>]
    /\ cargo  = NotBuilt

\* a constructor call: the new value is bound (a let binds once), nothing is printed
Construct(fn, arg, value) ==
    /\ self    = NoValue
    /\ self'   = value
    /\ call'   = [fn |-> fn, arg |-> arg, before |-> NoValue, ret |-> Unit]
    /\ stdout' = <<>>
    /\ at_new' = Observe(value.type, value)
    /\ UNCHANGED cargo

\* a call taking &self: the receiver is as before, ret is returned, lines are printed
Shared(fn, ret, lines) ==
    /\ call'   = [fn |-> fn, arg |-> Unit, before |-> self, ret |-> ret]
    /\ stdout' = lines
    /\ UNCHANGED <<self, at_new, cargo>>

-----------------------------------------------------------------------------
(* Calls *)

NewDog ==
    \E name \in Names, age \in Ages, breed \in Breeds :
        Construct("Dog::new", RetNum(age), Dog_new(name, age, breed))

NewCat ==
    \E name \in Names, indoor \in BOOLEAN :
        Construct("Cat::new", Unit, Cat_new(name, indoor))

NewDuck ==
    \E name \in Names :
        Construct("Duck::new", Unit, Duck_new(name))

NewHorse ==
    \E name \in Names, speed_mph \in Speeds :
        Construct("Horse::new", RetNum(speed_mph), Horse_new(name, speed_mph))

GetAge ==
    /\ self.type = "Dog"
    /\ Shared("Dog::get_age", RetNum(Dog_get_age(self)), <<>>)

SetAge ==
    /\ self.type = "Dog"
    /\ \E age \in Ages :
        LET r == Dog_set_age(self, age) IN
        /\ self'   = r.self
        /\ call'   = [fn |-> "Dog::set_age", arg |-> RetNum(age), before |-> self, ret |-> r.ret]
        /\ stdout' = <<>>
        /\ UNCHANGED <<at_new, cargo>>

Speak ==
    /\ self.type \in AnimalTypes
    /\ Shared("Animal::speak", RetStr(StaticSpeak(self.type, self)), <<>>)

Name ==
    /\ self.type \in AnimalTypes
    /\ Shared("Animal::name", RetStr(StaticName(self.type, self)), <<>>)

Describe ==
    /\ self.type \in AnimalTypes
    /\ Shared("Animal::describe", RetStr(StaticDescribe(self.type, self)), <<>>)

Swim ==
    /\ self.type \in SwimmerTypes
    /\ Shared("Swimmer::swim", RetStr(StaticSwim(self.type, self)), <<>>)

Walk ==
    /\ self.type = "Horse"
    /\ Shared("Horse::walk", RetStr(Horse_walk(self)), <<>>)

Gallop ==
    /\ self.type = "Horse"
    /\ Shared("Horse::gallop", RetStr(Horse_gallop(self)), <<>>)

IntroduceAnimal ==
    /\ self.type \in AnimalTypes
    /\ Shared("introduce_animal", Unit, introduce_animal(AsDynAnimal(self)))

MakeSound ==
    /\ self.type \in AnimalTypes
    /\ Shared("make_sound", Unit, make_sound(self.type, self))

CargoRun ==
    /\ cargo.phase = "not started"
    /\ cargo' = cargo_run
    /\ UNCHANGED <<self, call, stdout, at_new>>

Next ==
    \/ NewDog \/ NewCat \/ NewDuck \/ NewHorse
    \/ GetAge \/ SetAge
    \/ Speak \/ Name \/ Describe \/ Swim
    \/ Walk \/ Gallop
    \/ IntroduceAnimal \/ MakeSound
    \/ CargoRun

Spec == Init /\ [][Next]_vars

-----------------------------------------------------------------------------
(* Properties *)

\* the texts as the properties state them
TextSays     == <<" ","s","a","y","s",":"," ">>
TextPurr     == <<"M","e","o","w","~"," ","(","c","o","m","f","o","r","t","a","b","l","e",
                  " ","p","u","r","r",")">>
TextStreet   == <<"M","E","O","W","!"," ","(","s","t","r","e","e","t"," ","c","a","t"," ",
                  "a","t","t","i","t","u","d","e",")">>
TextWalks4   == <<" ","w","a","l","k","s"," ","o","n"," ","4"," ","l","e","g","s">>
TextPaddles  == <<" ","p","a","d","d","l","e","s"," ","g","r","a","c","e","f","u","l","l","y",
                  " ","a","c","r","o","s","s"," ","t","h","e"," ","p","o","n","d">>
TextSwimming == <<"S","w","i","m","m","i","n","g",".",".",".">>
TextQuack    == <<"Q","u","a","c","k"," ","q","u","a","c","k","!">>
TextIndent   == <<" "," ">>
TextSound    == <<" "," ","S","o","u","n","d",":"," ">>

\* C1: right after set_age(a) with a <= 25, get_age() returns a, whatever the
\* dog's age was before the call
SetAgeInRangeTakesEffect ==
    (call.fn = "Dog::set_age" /\ call.arg.val <= 25) =>
        Dog_get_age(self) = call.arg.val

\* a dog aged 100 has just been given the age 25
SetAgeInRangeWitness ==
    /\ call.fn = "Dog::set_age"
    /\ call.arg.val = 25
    /\ call.before.age = 100
    /\ self.age = 25

\* C2: right after set_age(a) with 25 < a <= 255, get_age() returns what it
\* returned before the call, the call returned the unit value (no error, no
\* signal to the caller) and printed nothing
SetAgeOutOfRangeIsDiscarded ==
    (call.fn = "Dog::set_age" /\ 25 < call.arg.val /\ call.arg.val <= 255) =>
        /\ Dog_get_age(self) = Dog_get_age(call.before)
        /\ call.ret = Unit
        /\ stdout = <<>>

\* a dog aged 6 has just been given the age 100 and is still 6
SetAgeOutOfRangeWitness ==
    /\ call.fn = "Dog::set_age"
    /\ call.arg.val = 100
    /\ call.before.age = 6
    /\ self.age = 6

\* C3: in every state reached by Dog::new with any age it accepts, followed by
\* any set_age calls, get_age() returns at most 25
DogAgeAtMost25 ==
    self.type = "Dog" => Dog_get_age(self) <= 25

\* C4: for a value of any of the four types, describe() is name(), then
\* " says: ", then speak(), called directly or through &dyn Animal; every
\* type's describe is the trait's default
DescribeIsNameSaysSpeak ==
    /\ \A T \in {"Dog", "Cat", "Duck", "Horse"} : ImplAnimal[T].describe = "Animal::describe"
    /\ self.type \in {"Dog", "Cat", "Duck", "Horse"} =>
        LET expected == StaticName(self.type, self) \o TextSays \o StaticSpeak(self.type, self) IN
        /\ StaticDescribe(self.type, self) = expected
        /\ DynDescribe(AsDynAnimal(self)) = expected
        /\ call.fn = "Animal::describe" => call.ret.val = expected

\* describe() has just been called on the dog Rex, a German Shepherd
DescribeWitness ==
    /\ call.fn = "Animal::describe"
    /\ self.type = "Dog"
    /\ self.name = NameRex
    /\ self.breed = BreedGerman

\* C5: for a value of any of the four types, speak() through &dyn Animal and
\* speak() on the value's own type give the same string: make_sound prints
\* what the dynamic call returns, introduce_animal what the static call returns
DispatchAgrees ==
    self.type \in {"Dog", "Cat", "Duck", "Horse"} =>
        LET dyn == AsDynAnimal(self) IN
        /\ DynSpeak(dyn) = StaticSpeak(self.type, self)
        /\ call.fn = "make_sound" =>
               stdout = <<TextSound \o DynSpeak(dyn)>>
        /\ call.fn = "introduce_animal" =>
               stdout = <<TextIndent \o DynName(dyn) \o TextSays \o StaticSpeak(self.type, self)>>

\* make_sound has just been called on a dog
DispatchWitness ==
    /\ call.fn = "make_sound"
    /\ self.type = "Dog"
    /\ stdout # <<>>

\* C6: a cat's speak() is "Meow~ (comfortable purr)" when indoor and
\* "MEOW! (street cat attitude)" when not, and any cat of any name with the
\* same flag returns the same string
CatSpeakByIndoorOnly ==
    self.type = "Cat" =>
        /\ Cat_speak(self) = IF self.indoor THEN TextPurr ELSE TextStreet
        /\ \A name \in Names : Cat_speak(Cat_new(name, self.indoor)) = Cat_speak(self)
        /\ call.fn = "Animal::speak" =>
               call.ret.val = IF self.indoor THEN TextPurr ELSE TextStreet

\* speak() has just been called on the outdoor cat Donald
CatSpeakWitness ==
    /\ call.fn = "Animal::speak"
    /\ self.type = "Cat"
    /\ ~self.indoor
    /\ self.name = NameDonald

\* C7: in every state a horse has 4 legs, and its walk() is its base's walk(),
\* the name followed by " walks on 4 legs"
HorseHasFourLegsAndDelegatesWalk ==
    self.type = "Horse" =>
        /\ self.base.legs = 4
        /\ Horse_walk(self) = AnimalBase_walk(self.base)
        /\ Horse_walk(self) = self.base.name \o TextWalks4
        /\ call.fn = "Horse::walk" => call.ret.val = self.base.name \o TextWalks4

\* walk() has just been called on the horse Rex
HorseWalkWitness ==
    /\ call.fn = "Horse::walk"
    /\ self.type = "Horse"
    /\ self.base.name = NameRex

\* C8: only Duck implements Swimmer; a duck's swim() is its name followed by
\* " paddles gracefully across the pond", never "Swimming...", and its
\* speak() is "Quack quack!" whatever its name
DuckSwimsByName ==
    /\ SwimmerTypes = {"Duck"}
    /\ self.type = "Duck" =>
        /\ StaticSwim("Duck", self) = self.name \o TextPaddles
        /\ StaticSwim("Duck", self) # TextSwimming
        /\ StaticSpeak("Duck", self) = TextQuack
        /\ call.fn = "Swimmer::swim" => call.ret.val = self.name \o TextPaddles

\* swim() has just been called on the duck Donald
DuckSwimWitness ==
    /\ call.fn = "Swimmer::swim"
    /\ self.type = "Duck"
    /\ self.name = NameDonald

\* C9: the program, once started, ends with successful completion
MainEndsSuccessfully ==
    cargo.phase = "exited" => cargo.exit = "success"

\* C10: a dog's name(), speak() and describe() are what they were right after
\* construction, set_age leaves the name and the breed as they were, and
\* get_age leaves the dog as it was
SetAgeChangesOnlyAge ==
    self.type = "Dog" =>
        /\ Dog_name(self) = at_new.name
        /\ Dog_speak(self) = at_new.speak
        /\ StaticDescribe("Dog", self) = at_new.describe
        /\ call.fn = "Dog::set_age" =>
               /\ self.name = call.before.name
               /\ self.breed = call.before.breed
        /\ call.fn = "Dog::get_age" => self = call.before

\* the dog Rex, a German Shepherd aged 5, has just been given the age 6
SetAgeFrameWitness ==
    /\ call.fn = "Dog::set_age"
    /\ call.before.age = 5
    /\ self.age = 6
    /\ self.name = NameRex
    /\ self.breed = BreedGerman

====
